---- MODULE Spec2Model ----
(***************************************************************************)
(* Model of the ddps-lab/dos scripts:                                      *)
(*   data-generation/raw-lhs-data-generation.py  (generate, filter, save)  *)
(*   data-generation/test-set-generation.py      (train/test partition)    *)
(*   dos/inference.py, microservice/lambda_function.py (strategy choice)   *)
(*                                                                         *)
(* Numbers.  TLC integers are 32 bit, the program's are 64-bit integers    *)
(* and doubles.  Products that exceed 32 bits are computed exactly on      *)
(* base-10^4 limbs.  Floating-point values are exact rationals: a density  *)
(* is its numerator over DensityScale = 10^8, an LHS draw u in [0,1) is    *)
(* its numerator over sample * Res.  No value of the model reaches 2^63,   *)
(* so 64-bit wrap-around does not occur; the rounding of a double is not   *)
(* modelled.                                                               *)
(***************************************************************************)
EXTENDS Integers, Sequences, FiniteSets

(* ---------------- exact arithmetic on naturals ---------------- *)

B == 10^4

RECURSIVE ToBig(_)
ToBig(n) == IF n = 0 THEN <<>> ELSE <<n % B>> \o ToBig(n \div B)

RECURSIVE BigAddC(_, _, _)
BigAddC(a, b, c) ==
    IF a = <<>> /\ b = <<>>
    THEN (IF c = 0 THEN <<>> ELSE <<c>>)
    ELSE LET x == IF a = <<>> THEN 0 ELSE Head(a)
             y == IF b = <<>> THEN 0 ELSE Head(b)
             s == x + y + c
         IN  <<s % B>> \o BigAddC(IF a = <<>> THEN <<>> ELSE Tail(a),
                                  IF b = <<>> THEN <<>> ELSE Tail(b),
                                  s \div B)

RECURSIVE BigMulLimb(_, _, _)
BigMulLimb(a, d, c) ==
    IF a = <<>>
    THEN (IF c = 0 THEN <<>> ELSE <<c>>)
    ELSE LET s == Head(a) * d + c
         IN  <<s % B>> \o BigMulLimb(Tail(a), d, s \div B)

RECURSIVE BigMul(_, _)
BigMul(a, b) ==
    IF b = <<>> \/ a = <<>>
    THEN <<>>
    ELSE BigAddC(BigMulLimb(a, Head(b), 0), <<0>> \o BigMul(a, Tail(b)), 0)

\* -1, 0, 1 as a < b, a = b, a > b (leading zero limbs allowed)
RECURSIVE BigCmp(_, _)
BigCmp(a, b) ==
    IF a = <<>> /\ b = <<>>
    THEN 0
    ELSE LET x  == IF a = <<>> THEN 0 ELSE Head(a)
             y  == IF b = <<>> THEN 0 ELSE Head(b)
             hi == BigCmp(IF a = <<>> THEN <<>> ELSE Tail(a),
                          IF b = <<>> THEN <<>> ELSE Tail(b))
         IN  IF hi # 0 THEN hi
             ELSE IF x < y THEN -1 ELSE IF x > y THEN 1 ELSE 0

\* a * b < m, the elementwise comparison of a product column with a scalar
ProdLess(a, b, m) == BigCmp(BigMul(ToBig(a), ToBig(b)), ToBig(m)) = -1

(* ---------------- program constants ---------------- *)

LrMax == 150000
LcMax == 100000
RcMax == 50000
intmaxvalue == 2147483647
NnzCap == 70000000

DensityScale == B * B

ld_list == << 108175, 82282, 56263, 34241, 15297, 2088,
              163948, 78778, 41097, 19487, 8429, 1651,
              2533638, 952101, 296184, 82185, 18467, 464,
              1084252, 860544, 491597, 160539, 47003, 2483,
              370564, 182521, 82487, 31941, 13363, 434 >>

rd_list == << 50000, 100000, 500000, 1000000, 3000000, 5000000, 7000000,
              10000000, 13000000, 15000000, 17000000, 20000000,
              23000000, 25000000, 27000000, 30000000 >>

(* ---------------- bounds of the model ---------------- *)

\* number of scenarios generated (2,500,000 in the program)
sample == 2

\* resolution of a uniform draw: rand() is r / Res, r in 0 .. Res - 1.  A
\* multiple of the three maxima, so that every scaled draw is an exact
\* rational with a small denominator.
Res == 2 * LrMax

\* the uniform draws explored: the lowest non-zero one and the highest
RandSet == {1, Res - 1}

\* the pool entries explored by the two density draws: the first left
\* density, and the right density 0.03, at which the 70,000,000 ceiling
\* falls among the generated scenarios
LdChoice == {1}
RdChoice == {5}

\* lhs_filtering called on a table of the caller: at most MaxRows rows
MaxRows == 3

\* test-set-generation.py: rows of spmm-data.csv, numbers on a line of stdin
MaxData == 2
MaxTokens == 2

\* the latency predictions explored, in half milliseconds
MaxLatency == 5

VARIABLES
    \* raw-lhs-data-generation.py
    pc,                   \* position in the script
    H,                    \* the three lhs() columns drawn by lhs_generate
    lhs_df,               \* lhs_df
    preprocessed_lhs_df,  \* preprocessed_lhs_df
    csv,                  \* ../data/raw-lhs-data.csv
    \* lhs_filtering called on a table of the caller
    calls,                \* how many calls have returned
    in_df,                \* the caller's table
    result_df,            \* lhs_filtering(in_df)
    twice_df,             \* lhs_filtering(result_df)
    \* test-set-generation.py
    tpc,                  \* position in the script
    spmm_csv,             \* ../data/spmm-data.csv
    stdin,                \* the piped input, a line is the numbers on it
    dataset,              \* dataset
    line_number,          \* line_number
    train_row_start,      \* train_row_start
    train_set,            \* train_set
    test_csv,             \* ../data/test-set.csv
    \* inference.py and lambda_function.py
    model_dir,            \* what each saved model predicts for the request
    cli_out,              \* what inference has printed
    lambda_out            \* what handler has returned

pipelineVars == <<pc, H, lhs_df, preprocessed_lhs_df, csv>>
filterVars == <<calls, in_df, result_df, twice_df>>
partitionVars == <<tpc, spmm_csv, stdin, dataset, line_number,
                   train_row_start, train_set, test_csv>>
serveVars == <<model_dir, cli_out, lambda_out>>

vars == <<pipelineVars, filterVars, partitionVars, serveVars>>

(* ---------------- lhs_generate ---------------- *)

Perms(n) == {f \in [1..n -> 1..n] : \A i, j \in 1..n : f[i] = f[j] => i = j}

\* lhs as plain uniform sampling: the draw is taken over the whole of
\* [0, 1) and not moved into its stratum
lhs_uniform(u, order) ==
    LET rdpoints == [i \in 1..sample |-> u[i] * sample]
    IN  [j \in 1..sample |-> rdpoints[order[j]]]

\* pyDOE lhs(1, samples=sample), classic criterion: cut = linspace(0, 1,
\* sample + 1), rdpoints = u * (b - a) + a over the strata [a, b), then the
\* column is rdpoints taken in a random order.  Values are numerators over
\* sample * Res: a = (i - 1) * Res, b - a = Res, u = r / Res.
lhs(u, order) ==
    LET rdpoints == [i \in 1..sample |-> u[i] + (i - 1) * Res]
    IN  [j \in 1..sample |-> rdpoints[order[j]]]

\* denominators of the scaled columns: lhs * 150000 is h / DLr, and so on
DLr == sample * (Res \div LrMax)
DLc == sample * (Res \div LcMax)
DRc == sample * (Res \div RcMax)

\* astype('int') of the float h / d (truncation; every value is >= 0)
AsInt(h, d) == h \div d

\* astype('int') of the float product (h1 / d1) * (h2 / d2) * (dens / 10^8):
\* floor(h1 * h2 * dens / (10^8 * d1 * d2)), exactly, on base-10^4 limbs
\* (h1, h2 < 10^8 / 50, dens < 10^8, d1 * d2 <= 200000)
NnzInt(h1, d1, h2, d2, dens) ==
    LET a0 == h1 % B
        a1 == h1 \div B
        b0 == h2 % B
        b1 == h2 \div B
        e0 == dens % B
        e1 == dens \div B
        \* h1 * h2 = n0 + n1 * B + n2 * B^2, n0, n1 < B
        p0 == a0 * b0
        p1 == a0 * b1 + a1 * b0 + p0 \div B
        n0 == p0 % B
        n1 == p1 % B
        n2 == a1 * b1 + p1 \div B
        \* times dens = x0 + x1 * B + x2 * B^2 + x3 * B^3
        x0 == n0 * e0
        x1 == n0 * e1 + n1 * e0 + x0 \div B
        x2 == n1 * e1 + n2 * e0 + x1 \div B
        x3 == n2 * e1 + x2 \div B
        \* divided by B^2 = y0 + y1 * B, y0 < B
        y0 == x2 % B
        y1 == x3
        d  == d1 * d2
    IN  (y1 \div d) * B + ((y1 % d) * B + y0) \div d

\* the frame returned for the draws hlr, hlc, hrc (lhs columns) and the
\* density draws ld, rd (numerators over 10^8); index is the RangeIndex
lhs_generate(hlr, hlc, hrc, ld, rd) ==
    [i \in 1..sample |->
        [index |-> i - 1,
         lr    |-> AsInt(hlr[i], DLr),
         lc    |-> AsInt(hlc[i], DLc),
         rc    |-> AsInt(hrc[i], DRc),
         ld    |-> ld[i],
         rd    |-> rd[i],
         lnnz  |-> NnzInt(hlr[i], DLr, hlc[i], DLc, ld[i]),
         rnnz  |-> NnzInt(hlc[i], DLc, hrc[i], DRc, rd[i])]]

(* ---------------- lhs_filtering ---------------- *)

\* lhs_filtering with the last mask joined by | where the code has &
lhs_filtering_or(df) ==
    LET P1(r) == r.lnnz < intmaxvalue
        P2(r) == ProdLess(r.lc, r.rc, intmaxvalue)
        P3(r) == ProdLess(r.lr, r.rc, intmaxvalue)
        P4(r) == r.lnnz < NnzCap \/ r.rnnz < NnzCap
    IN  SelectSeq(SelectSeq(SelectSeq(SelectSeq(df, P1), P2), P3), P4)

\* lhs_filtering with the last mask computed on the unfiltered frame and
\* applied by position to the frame the first three masks have left
lhs_filtering_positional(df) ==
    LET P1(r) == r.lnnz < intmaxvalue
        P2(r) == ProdLess(r.lc, r.rc, intmaxvalue)
        P3(r) == ProdLess(r.lr, r.rc, intmaxvalue)
        P4(r) == r.lnnz < NnzCap /\ r.rnnz < NnzCap
        s3    == SelectSeq(SelectSeq(SelectSeq(df, P1), P2), P3)
        kept  == {j \in 1..Len(s3) : P4(df[j])}
        RECURSIVE Pick(_)
        Pick(j) == IF j > Len(s3) THEN <<>>
                   ELSE (IF j \in kept THEN <<s3[j]>> ELSE <<>>) \o Pick(j + 1)
    IN  Pick(1)

\* lhs_filtering with the counts above the memory ceiling clipped to it
\* where the code removes the row
lhs_filtering_clip(df) ==
    LET P1(r) == r.lnnz < intmaxvalue
        P2(r) == ProdLess(r.lc, r.rc, intmaxvalue)
        P3(r) == ProdLess(r.lr, r.rc, intmaxvalue)
        Clip(n) == IF n < NnzCap THEN n ELSE NnzCap - 1
        s3    == SelectSeq(SelectSeq(SelectSeq(df, P1), P2), P3)
    IN  [i \in 1..Len(s3) |->
            [s3[i] EXCEPT !.lnnz = Clip(@), !.rnnz = Clip(@)]]

lhs_filtering(df) ==
    LET P1(r) == r.lnnz < intmaxvalue
        P2(r) == ProdLess(r.lc, r.rc, intmaxvalue)
        P3(r) == ProdLess(r.lr, r.rc, intmaxvalue)
        P4(r) == r.lnnz < NnzCap /\ r.rnnz < NnzCap
    IN  SelectSeq(SelectSeq(SelectSeq(SelectSeq(df, P1), P2), P3), P4)

\* to_csv(..., index=False): the seven columns, without the index
to_csv(df) ==
    [i \in 1..Len(df) |->
        [lr |-> df[i].lr, lc |-> df[i].lc, rc |-> df[i].rc,
         ld |-> df[i].ld, rd |-> df[i].rd,
         lnnz |-> df[i].lnnz, rnnz |-> df[i].rnnz]]

(* ---------------- raw-lhs-data-generation.py, module body ---------------- *)

NoFile == [written |-> FALSE, rows |-> <<>>]
NoDraws == [lr |-> <<>>, lc |-> <<>>, rc |-> <<>>]

FilterIdle ==
    /\ calls = 0
    /\ in_df = <<>>
    /\ result_df = <<>>
    /\ twice_df = <<>>

PipelineIdle ==
    /\ pc = "start"
    /\ H = NoDraws
    /\ lhs_df = <<>>
    /\ preprocessed_lhs_df = <<>>
    /\ csv = NoFile

PartitionIdle ==
    /\ tpc = "start"
    /\ spmm_csv = <<>>
    /\ stdin = <<>>
    /\ dataset = <<>>
    /\ line_number = 0
    /\ train_row_start = FALSE
    /\ train_set = <<>>
    /\ test_csv = NoFile

ServeIdle ==
    /\ model_dir = [smsm_dnn_model |-> 0, smdm_dnn_model |-> 0]
    /\ cli_out = <<>>
    /\ lambda_out = <<>>

Init ==
    /\ PipelineIdle
    /\ FilterIdle
    /\ PartitionIdle
    /\ ServeIdle

\* lhs_df = lhs_generate()
Generate ==
    /\ pc = "start"
    /\ \E ulr, ulc, urc \in [1..sample -> RandSet] :
       \E olr, olc, orc \in Perms(sample) :
       \E ld \in [1..sample -> {ld_list[i] : i \in LdChoice}] :
       \E rd \in [1..sample -> {rd_list[i] : i \in RdChoice}] :
          LET hlr == lhs(ulr, olr)
              hlc == lhs(ulc, olc)
              hrc == lhs(urc, orc)
          IN  /\ H' = [lr |-> hlr, lc |-> hlc, rc |-> hrc]
              /\ lhs_df' = lhs_generate(hlr, hlc, hrc, ld, rd)
    /\ pc' = "generated"
    /\ UNCHANGED <<preprocessed_lhs_df, csv>>
    /\ UNCHANGED <<filterVars, partitionVars, serveVars>>

\* preprocessed_lhs_df = lhs_filtering(lhs_df)
Filter ==
    /\ pc = "generated"
    /\ preprocessed_lhs_df' = lhs_filtering(lhs_df)
    /\ pc' = "filtered"
    /\ UNCHANGED <<H, lhs_df, csv>>
    /\ UNCHANGED <<filterVars, partitionVars, serveVars>>

\* the save step writing the generated frame, not the filtered one
Persist_unfiltered ==
    /\ pc = "filtered"
    /\ csv' = [written |-> TRUE, rows |-> to_csv(lhs_df)]
    /\ pc' = "persisted"
    /\ UNCHANGED <<H, lhs_df, preprocessed_lhs_df>>
    /\ UNCHANGED <<filterVars, partitionVars, serveVars>>

\* preprocessed_lhs_df.to_csv('../data/raw-lhs-data.csv', index=False)
Persist ==
    /\ pc = "filtered"
    /\ csv' = [written |-> TRUE, rows |-> to_csv(preprocessed_lhs_df)]
    /\ pc' = "persisted"
    /\ UNCHANGED <<H, lhs_df, preprocessed_lhs_df>>
    /\ UNCHANGED <<filterVars, partitionVars, serveVars>>

Next == Generate \/ Filter \/ Persist

Spec == Init /\ [][Next]_vars

(* ---------------- lhs_filtering on a table of the caller ---------------- *)

Scenario(lr, lc, rc, ld, rd, lnnz, rnnz) ==
    [lr |-> lr, lc |-> lc, rc |-> rc, ld |-> ld, rd |-> rd,
     lnnz |-> lnnz, rnnz |-> rnnz]

\* the scenarios the input tables are built from: the two of the
\* documentation, and the ones next to each threshold of the filter
RowPool ==
    { Scenario(1000, 500, 200, 1000000, 5000000, 5000, 5000),
      Scenario(1000, 60000, 40000, 1000000, 5000000, 5000, 5000),
      Scenario(7, 60000, 40000, 434, 50000, 0, 69999999),
      Scenario(100000, 10, 30000, 1000000, 5000000, 5000, 5000),
      Scenario(1000, 65534, 32769, 1000000, 5000000, 5000, 5000),
      Scenario(1000, 65536, 32768, 1000000, 5000000, 5000, 5000),
      Scenario(65536, 10, 32768, 1000000, 5000000, 5000, 5000),
      Scenario(1000, 500, 200, 1000000, 5000000, intmaxvalue, 5000),
      Scenario(1000, 500, 200, 1000000, 5000000, NnzCap, 5000),
      Scenario(1000, 500, 200, 1000000, 5000000, 5000, NnzCap),
      Scenario(1000, 500, 200, 1000000, 5000000, NnzCap - 1, NnzCap - 1),
      Scenario(0, 0, 0, 434, 50000, 0, 0) }

\* a frame with a RangeIndex over the given scenarios
Frame(rows) ==
    [i \in 1..Len(rows) |->
        [index |-> i - 1,
         lr |-> rows[i].lr, lc |-> rows[i].lc, rc |-> rows[i].rc,
         ld |-> rows[i].ld, rd |-> rows[i].rd,
         lnnz |-> rows[i].lnnz, rnnz |-> rows[i].rnnz]]

InitFilter ==
    /\ PipelineIdle
    /\ PartitionIdle
    /\ ServeIdle
    /\ calls = 0
    /\ \E n \in 0..MaxRows : \E rows \in [1..n -> RowPool] : in_df = Frame(rows)
    /\ result_df = <<>>
    /\ twice_df = <<>>

\* result_df = lhs_filtering(in_df)
Call ==
    /\ calls = 0
    /\ result_df' = lhs_filtering(in_df)
    /\ calls' = 1
    /\ UNCHANGED <<in_df, twice_df>>
    /\ UNCHANGED <<pipelineVars, partitionVars, serveVars>>

\* twice_df = lhs_filtering(result_df)
CallAgain ==
    /\ calls = 1
    /\ twice_df' = lhs_filtering(result_df)
    /\ calls' = 2
    /\ UNCHANGED <<in_df, result_df>>
    /\ UNCHANGED <<pipelineVars, partitionVars, serveVars>>

NextFilter == Call \/ CallAgain

SpecFilter == InitFilter /\ [][NextFilter]_vars

(* ---------------- test-set-generation.py ---------------- *)

\* the line whose numbers are the first to be collected
FirstTrainLine == 5

\* the piped input explored: up to one line past the first collected one
MaxLines == FirstTrainLine + 1

\* the numbers a line can hold ('[0-9]+' matches no sign)
Tokens == 0..(MaxData + 1)

Lines == UNION {[1..n -> Tokens] : n \in 0..MaxTokens}

\* lines before the first collected one: an empty one, one with numbers
HeaderPool == {<<>>, <<1, 2>>}

\* pd.read_csv: the rows of the file under a RangeIndex
read_csv(file) == [i \in 1..Len(file) |-> [index |-> i - 1, data |-> file[i]]]

\* the collection without the conversion to 0-based
RECURSIVE Collect_one_based(_, _)
Collect_one_based(acc, temp) ==
    IF temp = <<>> THEN acc
    ELSE Collect_one_based(Append(acc, Head(temp)), Tail(temp))

\* for row in temp[1:]: train_set.append(int(row) - 1)
RECURSIVE Collect(_, _)
Collect(acc, temp) ==
    IF temp = <<>> THEN acc
    ELSE Collect(Append(acc, Head(temp) - 1), Tail(temp))

Labels(df) == {df[i].index : i \in 1..Len(df)}

\* dataset.drop(index=train_set, axis=0), every label being present
drop(df, labels) ==
    LET Keep(r) == \A k \in 1..Len(labels) : labels[k] # r.index
    IN  SelectSeq(df, Keep)

\* to_csv(..., index=False)
to_csv_data(df) == [i \in 1..Len(df) |-> df[i].data]

InitPartition ==
    /\ PipelineIdle
    /\ FilterIdle
    /\ ServeIdle
    /\ tpc = "start"
    /\ \E m \in 0..MaxData : spmm_csv = [i \in 1..m |-> 100 + i]
    /\ \E n \in 0..MaxLines : \E h \in HeaderPool :
       \E body \in [(FirstTrainLine)..n -> Lines] :
          stdin = [i \in 1..n |-> IF i < FirstTrainLine THEN h ELSE body[i]]
    /\ dataset = <<>>
    /\ line_number = 0
    /\ train_row_start = FALSE
    /\ train_set = <<>>
    /\ test_csv = NoFile

\* dataset = pd.read_csv("../data/spmm-data.csv")
ReadDataset ==
    /\ tpc = "start"
    /\ dataset' = read_csv(spmm_csv)
    /\ tpc' = "loop"
    /\ UNCHANGED <<spmm_csv, stdin, line_number, train_row_start,
                   train_set, test_csv>>
    /\ UNCHANGED <<pipelineVars, filterVars, serveVars>>

\* one iteration of: for line in sys.stdin
ReadLine ==
    /\ tpc = "loop"
    /\ line_number < Len(stdin)
    /\ line_number' = line_number + 1
    /\ train_row_start' = (train_row_start \/ line_number' = FirstTrainLine)
    /\ train_set' = IF train_row_start'
                    THEN LET temp == stdin[line_number']
                         IN  IF temp = <<>> THEN train_set
                             ELSE Collect(train_set, Tail(temp))
                    ELSE train_set
    /\ UNCHANGED <<tpc, spmm_csv, stdin, dataset, test_csv>>
    /\ UNCHANGED <<pipelineVars, filterVars, serveVars>>

\* test_set = dataset.drop(index=train_set, axis=0); test_set.to_csv(...)
\* drop raises KeyError when a label is not in the index
DropAndSave ==
    /\ tpc = "loop"
    /\ line_number = Len(stdin)
    /\ IF \A k \in 1..Len(train_set) : train_set[k] \in Labels(dataset)
       THEN /\ test_csv' = [written |-> TRUE,
                            rows |-> to_csv_data(drop(dataset, train_set))]
            /\ tpc' = "done"
       ELSE /\ test_csv' = test_csv
            /\ tpc' = "KeyError"
    /\ UNCHANGED <<spmm_csv, stdin, dataset, line_number, train_row_start,
                   train_set>>
    /\ UNCHANGED <<pipelineVars, filterVars, serveVars>>

NextPartition == ReadDataset \/ ReadLine \/ DropAndSave

SpecPartition == InitPartition /\ [][NextPartition]_vars

(* ---------------- inference.py and lambda_function.py ---------------- *)

\* tf.keras.models.load_model(path): the predictor saved under that name,
\* given by what it predicts for the scaled feature vector of the request
load_model(name) == model_dir[name]

\* smdm is reported when its prediction is not the larger one
Choose(smsm_dnn_result, smdm_dnn_result, smdm, smsm) ==
    IF smdm_dnn_result <= smsm_dnn_result THEN smdm ELSE smsm

\* dos/inference.py: the result printed (latencies through int())
inference_result ==
    LET smsm_dnn_result == load_model("smsm_dnn_model")
        smdm_dnn_result == load_model("smdm_dnn_model")
    IN  [smsm |-> smsm_dnn_result \div 2,
         smdm |-> smdm_dnn_result \div 2,
         optim_method |-> Choose(smsm_dnn_result, smdm_dnn_result,
                                 "sm*dm", "sm*sm")]

\* microservice/lambda_function.py: both predictors are loaded from
\* .../model/smsm_dnn_model
handler_result ==
    LET smsm_dnn_result == load_model("smsm_dnn_model")
        smdm_dnn_result == load_model("smsm_dnn_model")
    IN  [smsm |-> smsm_dnn_result,
         smdm |-> smdm_dnn_result,
         optim_method |-> Choose(smsm_dnn_result, smdm_dnn_result,
                                 "smdm", "smsm")]

InitServe ==
    /\ PipelineIdle
    /\ FilterIdle
    /\ PartitionIdle
    /\ \E a, b \in 0..MaxLatency :
          model_dir = [smsm_dnn_model |-> a, smdm_dnn_model |-> b]
    /\ cli_out = <<>>
    /\ lambda_out = <<>>

\* inference(NR_L, NC_L, NC_R, D_L, D_R, NNZ_L, NNZ_R)
inference ==
    /\ cli_out = <<>>
    /\ cli_out' = <<inference_result>>
    /\ UNCHANGED <<model_dir, lambda_out>>
    /\ UNCHANGED <<pipelineVars, filterVars, partitionVars>>

\* handler(event, context)
handler ==
    /\ lambda_out = <<>>
    /\ lambda_out' = <<[statusCode |-> 200, body |-> handler_result]>>
    /\ UNCHANGED <<model_dir, cli_out>>
    /\ UNCHANGED <<pipelineVars, filterVars, partitionVars>>

NextServe == inference \/ handler

SpecServe == InitServe /\ [][NextServe]_vars

(* ======================= properties ======================= *)

\* a * b < intmaxvalue, decided by division
ProdFits(a, b) == b = 0 \/ a <= (intmaxvalue - 1) \div b

\* the three 32-bit predicates, and all four predicates, of a scenario
Feasible32(r) ==
    /\ r.lnnz < intmaxvalue
    /\ ProdFits(r.lc, r.rc)
    /\ ProdFits(r.lr, r.rc)

AllFour(r) == Feasible32(r) /\ r.lnnz < NnzCap /\ r.rnnz < NnzCap

Fields(r) == Scenario(r.lr, r.lc, r.rc, r.ld, r.rd, r.lnnz, r.rnnz)

InTable(r, df) == \E j \in 1..Len(df) : df[j] = r

\* round(a * b * dens / 10^8), to the nearest integer, halves to even
RoundDensity(a, b, dens) ==
    LET x    == BigMul(BigMul(ToBig(a), ToBig(b)), ToBig(dens))
        L(i) == IF i <= Len(x) THEN x[i] ELSE 0
        rem  == L(1) + B * L(2)
        q    == L(3) + B * L(4) + B * B * L(5)
    IN  IF 2 * rem > DensityScale \/ (2 * rem = DensityScale /\ q % 2 = 1)
        THEN q + 1 ELSE q

(* ---- C1 ---- *)
\* C1 (filter soundness): once lhs_filtering has returned, a scenario of
\* the input table is in the output if and only if all four predicates hold
\* on its values; a scenario with lc = 60000 and rc = 40000 is never in the
\* output, and the scenario 1000, 500, 200, 5000, 5000 always is.
FilterSoundness ==
    calls >= 1 =>
        \A i \in 1..Len(in_df) :
            /\ InTable(in_df[i], result_df) <=> AllFour(in_df[i])
            /\ (in_df[i].lc = 60000 /\ in_df[i].rc = 40000)
                   => ~InTable(in_df[i], result_df)
            /\ (/\ in_df[i].lr = 1000 /\ in_df[i].lc = 500
                /\ in_df[i].rc = 200
                /\ in_df[i].lnnz = 5000 /\ in_df[i].rnnz = 5000)
                   => InTable(in_df[i], result_df)

FilterSoundnessWitness ==
    /\ calls = 1
    /\ Len(in_df) = 3
    /\ Len(result_df) = 1
    /\ result_df[1].lr = 1000 /\ result_df[1].lnnz = 5000
    /\ \E i \in 1..3 : in_df[i].lc = 60000 /\ in_df[i].rc = 40000
    /\ \E i \in 1..3 : in_df[i].rnnz = NnzCap

(* ---- C2 ---- *)
\* C2 (derived-count consistency): every scenario generated and kept by the
\* filter has lnnz = round(lr * lc * ld) and rnnz = round(lc * rc * rd) on
\* the stored integer lr, lc, rc of its row.
DerivedCountConsistency ==
    pc \in {"filtered", "persisted"} =>
        \A i \in 1..Len(preprocessed_lhs_df) :
            LET r == preprocessed_lhs_df[i]
            IN  /\ r.lnnz = RoundDensity(r.lr, r.lc, r.ld)
                /\ r.rnnz = RoundDensity(r.lc, r.rc, r.rd)

\* C2 on the kept scenarios whose three dimensions are all >= 1 only:
\* violated as well, the mismatch does not come from the zero dimensions
DerivedCountConsistencyPositive ==
    pc \in {"filtered", "persisted"} =>
        \A i \in 1..Len(preprocessed_lhs_df) :
            LET r == preprocessed_lhs_df[i]
            IN  (r.lr >= 1 /\ r.lc >= 1 /\ r.rc >= 1) =>
                    /\ r.lnnz = RoundDensity(r.lr, r.lc, r.ld)
                    /\ r.rnnz = RoundDensity(r.lc, r.rc, r.rd)

(* ---- C3 ---- *)
\* C3 (non-zero-count bound): every generated scenario has
\* lnnz <= lr * lc and rnnz <= lc * rc on its stored integer fields.
NnzBound ==
    pc # "start" =>
        \A i \in 1..Len(lhs_df) :
            /\ ~ProdLess(lhs_df[i].lr, lhs_df[i].lc, lhs_df[i].lnnz)
            /\ ~ProdLess(lhs_df[i].lc, lhs_df[i].rc, lhs_df[i].rnnz)

\* C3 on the scenarios whose three dimensions are all >= 1 only: it holds
NnzBoundPositive ==
    pc # "start" =>
        \A i \in 1..Len(lhs_df) :
            LET r == lhs_df[i]
            IN  (r.lr >= 1 /\ r.lc >= 1 /\ r.rc >= 1) =>
                    /\ ~ProdLess(r.lr, r.lc, r.lnnz)
                    /\ ~ProdLess(r.lc, r.rc, r.rnnz)

(* ---- C4 ---- *)
\* C4 (positive integer dimensions): every generated scenario has
\* 1 <= lr <= 150000, 1 <= lc <= 100000 and 1 <= rc <= 50000.
PositiveDimensions ==
    pc # "start" =>
        \A i \in 1..Len(lhs_df) :
            /\ lhs_df[i].lr \in 1..LrMax
            /\ lhs_df[i].lc \in 1..LcMax
            /\ lhs_df[i].rc \in 1..RcMax

(* ---- C5 ---- *)
\* the indices received: the numbers after the first one on every line from
\* the fifth line on
RECURSIVE ReceivedFrom(_)
ReceivedFrom(n) ==
    IF n > Len(stdin) THEN <<>>
    ELSE (IF stdin[n] = <<>> THEN <<>> ELSE Tail(stdin[n])) \o ReceivedFrom(n + 1)

Received == ReceivedFrom(FirstTrainLine)

\* 0-based position of a row of spmm-data.csv, from its content
Position(data) == data - 101

\* C5 (partition completeness): for a dataset of M rows and k received
\* indices, distinct and all in 1..M, the script ends without error, the
\* test set has M - k rows, which are the rows at the positions that are no
\* index - 1, in order, and the train and test positions partition 0..M-1.
PartitionComplete ==
    LET M     == Len(spmm_csv)
        k     == Len(Received)
        Train == {Received[j] - 1 : j \in 1..k}
        Test  == {Position(test_csv.rows[j]) : j \in 1..Len(test_csv.rows)}
        Kept(data) == Position(data) \notin Train
    IN  (/\ tpc \in {"done", "KeyError"}
         /\ \A i, j \in 1..k : Received[i] = Received[j] => i = j
         /\ \A j \in 1..k : Received[j] \in 1..M)
        => /\ tpc = "done"
           /\ test_csv.written
           /\ Len(test_csv.rows) = M - k
           /\ test_csv.rows = SelectSeq(spmm_csv, Kept)
           /\ {train_set[j] : j \in 1..Len(train_set)} = Train
           /\ Train \cap Test = {}
           /\ Train \cup Test = 0..(M - 1)

PartitionCompleteWitness ==
    /\ tpc = "done"
    /\ Len(stdin) = MaxLines
    /\ stdin[1] # <<>>
    /\ Received = <<2>>
    /\ spmm_csv = <<101, 102>>
    /\ test_csv.rows = <<101>>

(* ---- C6 ---- *)
\* C6 (filter idempotence): lhs_filtering applied to its own output returns
\* that output: same rows, same order, same values.
FilterIdempotent == calls = 2 => twice_df = result_df

FilterIdempotentWitness ==
    /\ calls = 2
    /\ Len(in_df) = 3
    /\ Len(result_df) = 1
    /\ twice_df = result_df
    /\ ~AllFour(in_df[1])

(* ---- C7 ---- *)
\* df is sub, with rows removed: an order-preserving, one-to-one choice of
\* rows of df gives the rows of sub, all seven values unchanged
IsSubTable(sub, df) ==
    \E f \in [1..Len(sub) -> 1..Len(df)] :
        /\ \A i, j \in 1..Len(sub) : i < j => f[i] < f[j]
        /\ \A i \in 1..Len(sub) : Fields(sub[i]) = Fields(df[f[i]])

\* C7 (filter frame): no step changes the caller's table, and the table
\* lhs_filtering returns is the caller's table with rows removed.
FilterFrame ==
    [][ /\ in_df' = in_df
        /\ calls' >= 1 => IsSubTable(result_df', in_df') ]_vars

FilterFrameWitness ==
    /\ calls = 1
    /\ Len(in_df) = 3
    /\ Len(result_df) = 2
    /\ result_df[1].index = 0
    /\ result_df[2].index = 2
    /\ result_df[1].lnnz # result_df[2].lnnz

(* ---- C8 ---- *)
\* C8 (filter before persist): the script goes from generate to filter to
\* persist; the file is written by the persist step only, it holds
\* lhs_filtering of the whole generated table, none of its rows fails a
\* 32-bit predicate, and it is written also when that table is empty.
FilterBeforePersist ==
    [][ /\ pc' # pc => <<pc, pc'>> \in { <<"start", "generated">>,
                                        <<"generated", "filtered">>,
                                        <<"filtered", "persisted">> }
        /\ csv' # csv => (pc = "filtered" /\ pc' = "persisted")
        /\ pc' = "persisted" =>
              /\ csv'.written
              /\ Len(lhs_df') = sample
              /\ csv'.rows = to_csv(lhs_filtering(lhs_df'))
              /\ \A i \in 1..Len(csv'.rows) : Feasible32(csv'.rows[i]) ]_vars

FilterBeforePersistWitness ==
    /\ pc = "persisted"
    /\ csv.written
    /\ csv.rows = <<>>
    /\ Len(lhs_df) = sample
    /\ \E i \in 1..sample : ~Feasible32(lhs_df[i])

(* ---- C9 ---- *)
\* C9 (LHS coverage and sample count): lhs_generate returns sample rows, and
\* each of the three columns of draws has exactly one value in every stratum
\* [k / sample, (k + 1) / sample).
LhsCoverage ==
    pc # "start" =>
        /\ Len(lhs_df) = sample
        /\ \A col \in {H.lr, H.lc, H.rc} :
              /\ Len(col) = sample
              /\ \A k \in 0..(sample - 1) :
                    Cardinality({i \in 1..sample :
                        k * Res <= col[i] /\ col[i] < (k + 1) * Res}) = 1

LhsCoverageWitness ==
    /\ pc = "generated"
    /\ H.lr[1] > H.lr[sample]
    /\ H.lc[1] < H.lc[sample]
    /\ H.rc[1] % Res # H.rc[sample] % Res

(* ---- C10 ---- *)
\* C10 (strategy decision): each wrapper reports sparse-by-dense exactly
\* when the sm*dm model's prediction is <= the sm*sm model's prediction, and
\* sparse-by-sparse otherwise.
StrategyDecision ==
    LET smdm_better == model_dir.smdm_dnn_model <= model_dir.smsm_dnn_model
    IN  /\ cli_out # <<>> =>
              cli_out[1].optim_method =
                  (IF smdm_better THEN "sm*dm" ELSE "sm*sm")
        /\ lambda_out # <<>> =>
              lambda_out[1].body.optim_method =
                  (IF smdm_better THEN "smdm" ELSE "smsm")

====
